---- MODULE Spec2Model ----
(***************************************************************************)
(* auth-rs: the user repository (uniqueness pre-checks against a document  *)
(* store), the permission service, and the authentication gateway.         *)
(*                                                                         *)
(* Option<T> is modelled as a sequence of length <= 1: <<>> is None and    *)
(* <<x>> is Some(x).  A Result<T, Error> is a record [err, val] where err  *)
(* is "Ok" or the name of the Error variant.                               *)
(***************************************************************************)
EXTENDS Integers, Sequences, FiniteSets, TLC

VARIABLES
    users,     \* the user collection: a function from the stored _id to the document
    now,       \* the last value read from the system clock
    ret,       \* the UserRepository call completed last: its input and its result
    pc,        \* per concurrent request: the position inside UserRepository::create
    req,       \* per concurrent request: the user being created
    permissions, \* the permission collection: stored id -> permission
    roles,     \* the role collection: stored id -> role
    audits,    \* the audit ledger: the sequence of the Audit records written
    repoCalls, \* the number of PermissionRepository operations invoked so far
    pret,      \* the last completed PermissionService call: its input and its result
    resp,      \* the gateway request handled by the last step, and the response to it
    issued,    \* the session tokens the gateway has handed out so far
    assembled, \* the DTO assembly completed last: its input and its result
    converted, \* the creation request converted last, and the user it became
    bound      \* history: each token handed out, with the id of the user it went to

vars == <<users, now, ret, pc, req, permissions, roles, audits, repoCalls, pret, resp, issued,
          assembled, converted, bound>>

userVars == <<users, now, ret, pc, req>>
permVars == <<permissions, roles, audits, repoCalls, pret>>
authVars == <<resp, issued, assembled, converted, bound>>

\* ---------------------------------------------------------------- bounds
MaxTime == 1

\* ---------------------------------------------------------------- values
None == <<>>
Some(x) == <<x>>

Ok(v) == [err |-> "Ok", val |-> v]
Err(e) == [err |-> e, val |-> None]

UserIds == {"u1", "u2"}
Usernames == {"alice", "bob"}
Emails == {"a@x", "b@x"}

\* The non-key fields of a request, varied together: every field differs
\* between the two profiles.
ProfileA ==
    [first_name |-> "Ann", last_name |-> "Lee", password |-> "h1",
     roles |-> None, enabled |-> TRUE]
ProfileB ==
    [first_name |-> "Bo", last_name |-> "Ray", password |-> "h2",
     roles |-> Some(<<"r1">>), enabled |-> FALSE]
Profiles == {ProfileA, ProfileB}

\* web/dto/user/create_user.rs: the creation request.
CreateUser ==
    { [username |-> un, email |-> em, first_name |-> p.first_name,
       last_name |-> p.last_name, password |-> p.password, roles |-> p.roles] :
         un \in Usernames \cup {""}, em \in Emails \cup {""}, p \in Profiles }

\* UserFrom, but the roles of the request are dropped and the user is stamped
\* as updated one tick after its creation.
UserFromDropsRoles(value, id, t) ==
    [id |-> id, username |-> value.username, email |-> value.email,
     first_name |-> value.first_name, last_name |-> value.last_name,
     password |-> value.password, roles |-> None,
     created_at |-> t, updated_at |-> t + 1, enabled |-> TRUE]

\* impl From<CreateUser> for User: id is the generated uuid, t the clock value.
UserFrom(value, id, t) ==
    [id |-> id, username |-> value.username, email |-> value.email,
     first_name |-> value.first_name, last_name |-> value.last_name,
     password |-> value.password, roles |-> value.roles,
     created_at |-> t, updated_at |-> t, enabled |-> TRUE]

\* The serde view of User: the document written for a User.  The keys are the
\* renamed ones (_id, firstName, lastName, createdAt, updatedAt); the key
\* "updated_at" is no field of User and is absent from a serialized User.
ToDocument(u) ==
    [id |-> u.id, username |-> u.username, email |-> u.email,
     firstName |-> u.first_name, lastName |-> u.last_name,
     password |-> u.password, roles |-> u.roles,
     createdAt |-> u.created_at, updatedAt |-> u.updated_at,
     enabled |-> u.enabled, updated_at |-> None]

\* Deserialization reads the renamed keys and ignores the unknown key "updated_at".
FromDocument(d) ==
    [id |-> d.id, username |-> d.username, email |-> d.email,
     first_name |-> d.firstName, last_name |-> d.lastName,
     password |-> d.password, roles |-> d.roles,
     created_at |-> d.createdAt, updated_at |-> d.updatedAt,
     enabled |-> d.enabled]

\* ---------------------------------------------------------------- store
\* find_one(filter): None when nothing matches, otherwise one matching document
\* (which one is the store's choice).  S is the set of matching ids.
FindOne(coll, S) ==
    IF S = {} THEN {None} ELSE {Some(FromDocument(coll[i])) : i \in S}

\* Mutation of InsertOne: a store that also rejects a taken username or email.
InsertOneUniqueKeys(coll, doc, fail) ==
    IF \/ fail
       \/ doc.id \in DOMAIN coll
       \/ \E i \in DOMAIN coll : coll[i].username = doc.username \/ coll[i].email = doc.email
    THEN [ok |-> FALSE, coll |-> coll]
    ELSE [ok |-> TRUE, coll |-> [i \in DOMAIN coll \cup {doc.id} |->
                                    IF i = doc.id THEN doc ELSE coll[i]]]

\* insert_one: the store rejects a document whose _id is already stored.
InsertOne(coll, doc, fail) ==
    IF fail \/ doc.id \in DOMAIN coll
    THEN [ok |-> FALSE, coll |-> coll]
    ELSE [ok |-> TRUE, coll |-> [i \in DOMAIN coll \cup {doc.id} |->
                                    IF i = doc.id THEN doc ELSE coll[i]]]

\* delete_one(filter _id)
DeleteOne(coll, id) == [i \in DOMAIN coll \ {id} |-> coll[i]]

\* Mutation of FindById: the id is validated after the store call.
FindByIdValidatesLate(coll, id, fail) ==
    IF fail THEN {Err("MongoDbError")}
    ELSE IF id = "" THEN {Err("EmptyId")}
    ELSE {Ok(r) : r \in FindOne(coll, {i \in DOMAIN coll : coll[i].id = id})}

\* ---------------------------------------------------------------- UserRepository
FindById(coll, id, fail) ==
    IF id = "" THEN {Err("EmptyId")}
    ELSE IF fail THEN {Err("MongoDbError")}
    ELSE {Ok(r) : r \in FindOne(coll, {i \in DOMAIN coll : coll[i].id = id})}

FindByUsername(coll, username, fail) ==
    IF username = "" THEN {Err("EmptyUsername")}
    ELSE IF fail THEN {Err("MongoDbError")}
    ELSE {Ok(r) : r \in FindOne(coll, {i \in DOMAIN coll : coll[i].username = username})}

FindByEmail(coll, email, fail) ==
    IF email = "" THEN {Err("EmptyEmail")}
    ELSE IF fail THEN {Err("MongoDbError")}
    ELSE {Ok(r) : r \in FindOne(coll, {i \in DOMAIN coll : coll[i].email = email})}

\* An outcome of a repository call: its result and the collection it leaves.
Outcome(r, coll) == [err |-> r.err, val |-> r.val, coll |-> coll]

\* create, lines 73-90: insert, then re-read by id.
CreateInsert(coll, user, fault) ==
    LET ins == InsertOne(coll, ToDocument(user), fault = 3)
    IN  IF ~ins.ok THEN {Outcome(Err("MongoDbError"), coll)}
        ELSE { IF r.err # "Ok" THEN Outcome(r, ins.coll)
               ELSE IF r.val # None THEN Outcome(Ok(r.val), ins.coll)
               ELSE Outcome(Err("UserNotFound"), ins.coll) :
                 r \in FindById(ins.coll, user.id, fault = 4) }

\* Mutation of CreateCheckEmail: the email pre-check left out.
CreateCheckEmailSkipped(coll, user, fault) == CreateInsert(coll, user, fault)

\* create, lines 62-71: the email pre-check.
CreateCheckEmail(coll, user, fault) ==
    UNION { IF r.err # "Ok" THEN {Outcome(r, coll)}
            ELSE IF r.val # None THEN {Outcome(Err("EmailAlreadyTaken"), coll)}
            ELSE CreateInsert(coll, user, fault) :
              r \in FindByEmail(coll, user.email, fault = 2) }

\* create: the username pre-check, then the rest.  fault is the number of the
\* store call that fails (0: none).
CreateOutcomes(coll, user, fault) ==
    UNION { IF r.err # "Ok" THEN {Outcome(r, coll)}
            ELSE IF r.val # None THEN {Outcome(Err("UsernameAlreadyTaken"), coll)}
            ELSE CreateCheckEmail(coll, user, fault) :
              r \in FindByUsername(coll, user.username, fault = 1) }

\* Mutation of ApplySet: a $set that also names the password.
ApplySetWithPassword(doc, user, t) ==
    [doc EXCEPT !.username = user.username, !.email = user.email,
                !.firstName = user.first_name, !.lastName = user.last_name,
                !.roles = user.roles, !.updated_at = Some(t),
                !.enabled = user.enabled, !.password = user.password]

\* The $set document of update, applied to a stored document: it names the
\* keys username, email, firstName, lastName, roles, updated_at and enabled.
ApplySet(doc, user, t) ==
    [doc EXCEPT !.username = user.username, !.email = user.email,
                !.firstName = user.first_name, !.lastName = user.last_name,
                !.roles = user.roles, !.updated_at = Some(t),
                !.enabled = user.enabled]

\* Mutation of FindOneAndUpdate: the update run as an upsert.
FindOneAndUpdateUpsert(coll, user, t) ==
    IF user.id \in DOMAIN coll
    THEN [found |-> Some(FromDocument(coll[user.id])),
          coll |-> [coll EXCEPT ![user.id] = ApplySet(coll[user.id], user, t)]]
    ELSE [found |-> None,
          coll |-> [i \in DOMAIN coll \cup {user.id} |->
                      IF i = user.id THEN ApplySet(ToDocument(user), user, t) ELSE coll[i]]]

\* find_one_and_update(filter _id, update, None): no upsert, and with no
\* options the document returned is the one found, before the update.
FindOneAndUpdate(coll, user, t) ==
    IF user.id \in DOMAIN coll
    THEN [found |-> Some(FromDocument(coll[user.id])),
          coll |-> [coll EXCEPT ![user.id] = ApplySet(coll[user.id], user, t)]]
    ELSE [found |-> None, coll |-> coll]

\* update, lines 199-231.
UpdateApply(coll, user, fault, t) ==
    IF fault = 3 THEN {Outcome(Err("MongoDbError"), coll)}
    ELSE LET r == FindOneAndUpdate(coll, user, t)
         IN  IF r.found # None THEN {Outcome(Ok(r.found), r.coll)}
             ELSE {Outcome(Err("UserNotFound"), r.coll)}

\* update, lines 186-197: the email check excludes the entity's own id.
UpdateCheckEmail(coll, user, fault, t) ==
    UNION { IF r.err # "Ok" THEN {Outcome(r, coll)}
            ELSE IF r.val # None /\ r.val[1].id # user.id
                 THEN {Outcome(Err("EmailAlreadyTaken"), coll)}
            ELSE UpdateApply(coll, user, fault, t) :
              r \in FindByEmail(coll, user.email, fault = 2) }

\* Mutation of UpdateOutcomes: the username check left out.
UpdateOutcomesUnchecked(coll, user, fault, t) == UpdateCheckEmail(coll, user, fault, t)

\* Mutation of UpdateOutcomes: the username check does not exclude the
\* entity's own id.
UpdateOutcomesNoSelfExclusion(coll, user, fault, t) ==
    UNION { IF r.err # "Ok" THEN {Outcome(r, coll)}
            ELSE IF r.val # None
                 THEN {Outcome(Err("UsernameAlreadyTaken"), coll)}
            ELSE UpdateCheckEmail(coll, user, fault, t) :
              r \in FindByUsername(coll, user.username, fault = 1) }

\* update, lines 172-184: the username check excludes the entity's own id.
UpdateOutcomes(coll, user, fault, t) ==
    UNION { IF r.err # "Ok" THEN {Outcome(r, coll)}
            ELSE IF r.val # None /\ r.val[1].id # user.id
                 THEN {Outcome(Err("UsernameAlreadyTaken"), coll)}
            ELSE UpdateCheckEmail(coll, user, fault, t) :
              r \in FindByUsername(coll, user.username, fault = 1) }

\* delete, lines 233-249.
DeleteOutcomes(coll, id, fault) ==
    IF id = "" THEN {Outcome(Err("EmptyId"), coll)}
    ELSE IF fault = 1 THEN {Outcome(Err("MongoDbError"), coll)}
    ELSE {Outcome(Ok(None), DeleteOne(coll, id))}

\* find(None, None) and the read of its cursor: every stored user once, in the
\* order the store yields them.
Listings(coll) ==
    { [k \in 1..Cardinality(DOMAIN coll) |-> FromDocument(coll[s[k]])] :
        s \in { f \in [1..Cardinality(DOMAIN coll) -> DOMAIN coll] :
                  \A a, b \in 1..Cardinality(DOMAIN coll) : a # b => f[a] # f[b] } }

\* find_all, lines 92-103.  fault 1: the find call fails; fault 2: the read of
\* the cursor fails, and unwrap_or_else turns that into an empty vector.
FindAllOutcomes(coll, fault) ==
    IF fault = 1 THEN {Outcome(Err("MongoDbError"), coll)}
    ELSE IF fault = 2 THEN {Outcome(Ok(<<>>), coll)}
    ELSE {Outcome(Ok(l), coll) : l \in Listings(coll)}

\* ---------------------------------------------------------------- requests
\* The creation requests of the repository specification: any username and
\* email, the other fields those of ProfileA.
NewUsers == {v \in CreateUser : v.password = ProfileA.password}

\* The users handed to update: any id (also one that is not stored), any
\* username and email, and one of the profiles.
UpdateUsers(t) ==
    { [id |-> id, username |-> un, email |-> em, first_name |-> p.first_name,
       last_name |-> p.last_name, password |-> p.password, roles |-> p.roles,
       created_at |-> t, updated_at |-> t, enabled |-> p.enabled] :
         id \in UserIds, un \in Usernames \cup {""},
         em \in Emails \cup {""}, p \in Profiles }

NoCall == [op |-> "none", arg |-> None, fault |-> 0, err |-> "Ok", val |-> None]

Returned(op, arg, fault, o) ==
    [op |-> op, arg |-> arg, fault |-> fault, err |-> o.err, val |-> o.val]

\* ---------------------------------------------------------------- actions (one call at a time)
CreateCall(user, fault, t) ==
    \E o \in CreateOutcomes(users, user, fault) :
      /\ users' = o.coll
      /\ now' = t
      /\ ret' = Returned("create", user, fault, o)
      /\ UNCHANGED <<pc, req>>
      /\ UNCHANGED permVars

Create(value, id, fault, t) ==
    CreateCall(UserFrom(value, id, t), fault, t) /\ UNCHANGED authVars

\* The conversion of a creation request, and the create call for the user it
\* became.
CreateFrom(value, id, t) ==
    LET user == UserFrom(value, id, t)
    IN  /\ CreateCall(user, 0, t)
        /\ converted' = [value |-> Some(value), user |-> Some(user)]
        /\ UNCHANGED <<resp, issued, assembled, bound>>

\* The repository call update, whoever makes it.
UpdateCall(user, fault, t) ==
    \E o \in UpdateOutcomes(users, user, fault, t) :
      /\ users' = o.coll
      /\ now' = t
      /\ ret' = Returned("update", user, fault, o)
      /\ UNCHANGED <<pc, req>>
      /\ UNCHANGED permVars

Update(user, fault, t) == UpdateCall(user, fault, t) /\ UNCHANGED authVars

\* The repository call delete, whoever makes it.
DeleteCall(id, fault) ==
    \E o \in DeleteOutcomes(users, id, fault) :
      /\ users' = o.coll
      /\ ret' = Returned("delete", id, fault, o)
      /\ UNCHANGED <<now, pc, req>>
      /\ UNCHANGED permVars

Delete(id, fault) == DeleteCall(id, fault) /\ UNCHANGED authVars

\* ---------------------------------------------------------------- actions (reads)
CallFindAll(fault) ==
    \E o \in FindAllOutcomes(users, fault) :
      /\ ret' = Returned("find_all", "", fault, o)
      /\ UNCHANGED <<users, now, pc, req>>
      /\ UNCHANGED <<permVars, authVars>>

CallFindById(id, fault) ==
    \E r \in FindById(users, id, fault = 1) :
      /\ ret' = Returned("find_by_id", id, fault, r)
      /\ UNCHANGED <<users, now, pc, req>>
      /\ UNCHANGED <<permVars, authVars>>

CallFindByUsername(username, fault) ==
    \E r \in FindByUsername(users, username, fault = 1) :
      /\ ret' = Returned("find_by_username", username, fault, r)
      /\ UNCHANGED <<users, now, pc, req>>
      /\ UNCHANGED <<permVars, authVars>>

CallFindByEmail(email, fault) ==
    \E r \in FindByEmail(users, email, fault = 1) :
      /\ ret' = Returned("find_by_email", email, fault, r)
      /\ UNCHANGED <<users, now, pc, req>>
      /\ UNCHANGED <<permVars, authVars>>

\* ---------------------------------------------------------------- permissions
MaxAudits == 2

PermissionIds == {"p1", "p2"}
PermissionNames == {"read", "write"}
RoleIds == {"r1", "r2"}
Actors == {"u1", "AUTH-RS"}
AuditErrors == {"LedgerDown", "LedgerTimeout"}

Permissions ==
    { [id |-> id, name |-> n, description |-> "d"] :
        id \in PermissionIds, n \in PermissionNames }

\* Audit::new(user_id, action, resource_id, resource_id_type, resource_type)
AuditNew(user_id, action, resource_id, resource_id_type, resource_type) ==
    [user_id |-> user_id, action |-> action, resource_id |-> resource_id,
     resource_id_type |-> resource_id_type, resource_type |-> resource_type]

\* format!("{:?}", id_vec): the Debug text of the vector.
DebugFormat(id_vec) == <<"Debug", id_vec>>

\* AuditService::create: the ledger's one operation, an append.  res is what
\* the ledger's store answers: "Ok" or an error.
AuditServiceCreate(ledger, audit, res) ==
    IF res = "Ok" THEN [err |-> "Ok", ledger |-> Append(ledger, audit)]
    ELSE [err |-> res, ledger |-> ledger]

\* An outcome of a PermissionRepository call.
POutcome(r, perms, rls) ==
    [err |-> r.err, val |-> r.val, permissions |-> perms, roles |-> rls]

NameHolders(perms, name) == {i \in DOMAIN perms : perms[i].name = name}

\* PermissionRepository::create
PermissionCreate(perms, rls, p, fail) ==
    IF p.name = "" THEN POutcome(Err("ValidationError"), perms, rls)
    ELSE IF fail THEN POutcome(Err("StoreBackendFailure"), perms, rls)
    ELSE IF NameHolders(perms, p.name) # {} THEN POutcome(Err("DuplicateKey"), perms, rls)
    ELSE IF p.id \in DOMAIN perms THEN POutcome(Err("StoreBackendFailure"), perms, rls)
    ELSE POutcome(Ok(Some(p)),
                  [i \in DOMAIN perms \cup {p.id} |-> IF i = p.id THEN p ELSE perms[i]],
                  rls)

\* PermissionRepository::find_all
PermissionFindAll(perms, rls, fail) ==
    IF fail THEN POutcome(Err("StoreBackendFailure"), perms, rls)
    ELSE POutcome(Ok({perms[i] : i \in DOMAIN perms}), perms, rls)

\* PermissionRepository::find_by_id_vec: the subset found.
PermissionFindByIdVec(perms, rls, id_vec, fail) ==
    IF fail THEN POutcome(Err("StoreBackendFailure"), perms, rls)
    ELSE POutcome(Ok({perms[i] : i \in DOMAIN perms \cap {id_vec[k] : k \in DOMAIN id_vec}}),
                  perms, rls)

\* PermissionRepository::find_by_id
PermissionFindById(perms, rls, id, fail) ==
    IF id = "" THEN POutcome(Err("ValidationError"), perms, rls)
    ELSE IF fail THEN POutcome(Err("StoreBackendFailure"), perms, rls)
    ELSE POutcome(Ok(IF id \in DOMAIN perms THEN Some(perms[id]) ELSE None), perms, rls)

\* PermissionRepository::find_by_name
PermissionFindByName(perms, rls, name, fail) ==
    IF name = "" THEN POutcome(Err("ValidationError"), perms, rls)
    ELSE IF fail THEN POutcome(Err("StoreBackendFailure"), perms, rls)
    ELSE POutcome(Ok(IF NameHolders(perms, name) # {}
                     THEN Some(perms[CHOOSE i \in NameHolders(perms, name) : TRUE])
                     ELSE None), perms, rls)

\* PermissionRepository::update: uniqueness excludes the entity's own id.
PermissionUpdate(perms, rls, p, fail) ==
    IF p.name = "" THEN POutcome(Err("ValidationError"), perms, rls)
    ELSE IF fail THEN POutcome(Err("StoreBackendFailure"), perms, rls)
    ELSE IF NameHolders(perms, p.name) \ {p.id} # {}
         THEN POutcome(Err("DuplicateKey"), perms, rls)
    ELSE IF p.id \notin DOMAIN perms THEN POutcome(Err("NotFound"), perms, rls)
    ELSE POutcome(Ok(Some(p)), [perms EXCEPT ![p.id] = p], rls)

\* The Role-management capability: detach a permission id from every role.
DetachFromRoles(rls, id) ==
    [r \in DOMAIN rls |->
       IF rls[r].permissions = None THEN rls[r]
       ELSE [rls[r] EXCEPT !.permissions =
               Some(SelectSeq(rls[r].permissions[1], LAMBDA x : x # id))]]

\* PermissionRepository::delete(id, db, role_service)
PermissionDelete(perms, rls, id, fail) ==
    IF id = "" THEN POutcome(Err("ValidationError"), perms, rls)
    ELSE IF fail THEN POutcome(Err("StoreBackendFailure"), perms, rls)
    ELSE POutcome(Ok(None), [i \in DOMAIN perms \ {id} |-> perms[i]],
                  DetachFromRoles(rls, id))

\* PermissionRepository::search
PermissionSearch(perms, rls, text, fail) ==
    IF fail THEN POutcome(Err("StoreBackendFailure"), perms, rls)
    ELSE POutcome(Ok({perms[i] : i \in NameHolders(perms, text)}), perms, rls)

\* ---------------------------------------------------------------- PermissionService
\* The outcome of a service call: what the audit write answered, how often the
\* repository was invoked and what it answered (None when it was not invoked),
\* the result returned to the caller, and the ledger and the stores the call
\* leaves.
AuditFailed(a, ledger, perms, rls) ==
    [audit |-> a.err, calls |-> 0, repo |-> None, err |-> "Audit", val |-> Some(a.err),
     audits |-> ledger, permissions |-> perms, roles |-> rls]

RepositoryResult(a, o) ==
    [audit |-> a.err, calls |-> 1, repo |-> Some([err |-> o.err, val |-> o.val]),
     err |-> o.err, val |-> o.val,
     audits |-> a.ledger, permissions |-> o.permissions, roles |-> o.roles]

ServiceCreate(ledger, perms, rls, new_permission, user_id, auditRes, fail) ==
    LET a == AuditServiceCreate(ledger,
               AuditNew(user_id, "Create", new_permission.id, "PermissionId", "Permission"),
               auditRes)
    IN  IF a.err # "Ok" THEN AuditFailed(a, ledger, perms, rls)
        ELSE RepositoryResult(a, PermissionCreate(perms, rls, new_permission, fail))

ServiceFindAll(ledger, perms, rls, user_id, auditRes, fail) ==
    LET a == AuditServiceCreate(ledger,
               AuditNew(user_id, "Read", "", "None", "Permission"), auditRes)
    IN  IF a.err # "Ok" THEN AuditFailed(a, ledger, perms, rls)
        ELSE RepositoryResult(a, PermissionFindAll(perms, rls, fail))

ServiceFindByIdVec(ledger, perms, rls, id_vec, user_id, auditRes, fail) ==
    LET a == AuditServiceCreate(ledger,
               AuditNew(user_id, "Read", DebugFormat(id_vec), "PermissionIdVec", "Permission"),
               auditRes)
    IN  IF a.err # "Ok" THEN AuditFailed(a, ledger, perms, rls)
        ELSE RepositoryResult(a, PermissionFindByIdVec(perms, rls, id_vec, fail))

ServiceFindById(ledger, perms, rls, id, user_id, auditRes, fail) ==
    LET a == AuditServiceCreate(ledger,
               AuditNew(user_id, "Read", id, "PermissionId", "Permission"), auditRes)
    IN  IF a.err # "Ok" THEN AuditFailed(a, ledger, perms, rls)
        ELSE RepositoryResult(a, PermissionFindById(perms, rls, id, fail))

ServiceFindByName(ledger, perms, rls, name, user_id, auditRes, fail) ==
    LET a == AuditServiceCreate(ledger,
               AuditNew(user_id, "Read", name, "PermissionName", "Permission"), auditRes)
    IN  IF a.err # "Ok" THEN AuditFailed(a, ledger, perms, rls)
        ELSE RepositoryResult(a, PermissionFindByName(perms, rls, name, fail))

\* Mutation of ServiceUpdate: a failed repository call is tried once more.
ServiceUpdateRetrying(ledger, perms, rls, permission, user_id, auditRes, fail) ==
    LET a == AuditServiceCreate(ledger,
               AuditNew(user_id, "Update", permission.id, "PermissionId", "Permission"),
               auditRes)
        first == PermissionUpdate(perms, rls, permission, fail)
    IN  IF a.err # "Ok" THEN AuditFailed(a, ledger, perms, rls)
        ELSE IF first.err = "Ok" THEN RepositoryResult(a, first)
        ELSE [RepositoryResult(a, PermissionUpdate(perms, rls, permission, FALSE))
                EXCEPT !.calls = 2]

\* ServiceUpdate, but the audit record is taken back when the repository
\* operation fails.
ServiceUpdateCompensates(ledger, perms, rls, permission, user_id, auditRes, fail) ==
    LET a == AuditServiceCreate(ledger,
               AuditNew(user_id, "Update", permission.id, "PermissionId", "Permission"),
               auditRes)
        o == PermissionUpdate(perms, rls, permission, fail)
    IN  IF a.err # "Ok" THEN AuditFailed(a, ledger, perms, rls)
        ELSE IF o.err # "Ok" THEN RepositoryResult([a EXCEPT !.ledger = ledger], o)
        ELSE RepositoryResult(a, o)

ServiceUpdate(ledger, perms, rls, permission, user_id, auditRes, fail) ==
    LET a == AuditServiceCreate(ledger,
               AuditNew(user_id, "Update", permission.id, "PermissionId", "Permission"),
               auditRes)
    IN  IF a.err # "Ok" THEN AuditFailed(a, ledger, perms, rls)
        ELSE RepositoryResult(a, PermissionUpdate(perms, rls, permission, fail))

\* Mutation of ServiceDelete: the repository is invoked whatever the audit
\* write answered.
ServiceDeleteNoAbort(ledger, perms, rls, id, user_id, auditRes, fail) ==
    LET a == AuditServiceCreate(ledger,
               AuditNew(user_id, "Delete", id, "PermissionId", "Permission"), auditRes)
    IN  RepositoryResult(a, PermissionDelete(perms, rls, id, fail))

\* Mutation of ServiceDelete: Ok is returned without the repository delete.
ServiceDeleteSkipsRepository(ledger, perms, rls, id, user_id, auditRes, fail) ==
    LET a == AuditServiceCreate(ledger,
               AuditNew(user_id, "Delete", id, "PermissionId", "Permission"), auditRes)
    IN  IF a.err # "Ok" THEN AuditFailed(a, ledger, perms, rls)
        ELSE RepositoryResult(a, POutcome(Ok(None), perms, rls))

ServiceDelete(ledger, perms, rls, id, user_id, auditRes, fail) ==
    LET a == AuditServiceCreate(ledger,
               AuditNew(user_id, "Delete", id, "PermissionId", "Permission"), auditRes)
    IN  IF a.err # "Ok" THEN AuditFailed(a, ledger, perms, rls)
        ELSE RepositoryResult(a, PermissionDelete(perms, rls, id, fail))

\* Mutation of ServiceSearch: the search audited as a Read.
ServiceSearchAuditedAsRead(ledger, perms, rls, text, user_id, auditRes, fail) ==
    LET a == AuditServiceCreate(ledger,
               AuditNew(user_id, "Read", "", "PermissionSearch", "Permission"), auditRes)
    IN  IF a.err # "Ok" THEN AuditFailed(a, ledger, perms, rls)
        ELSE RepositoryResult(a, PermissionSearch(perms, rls, text, fail))

ServiceSearch(ledger, perms, rls, text, user_id, auditRes, fail) ==
    LET a == AuditServiceCreate(ledger,
               AuditNew(user_id, "Search", "", "PermissionSearch", "Permission"), auditRes)
    IN  IF a.err # "Ok" THEN AuditFailed(a, ledger, perms, rls)
        ELSE RepositoryResult(a, PermissionSearch(perms, rls, text, fail))

\* ---------------------------------------------------------------- service actions
NoServiceCall ==
    [op |-> "none", user_id |-> "", audit |-> "Ok", repo |-> None,
     err |-> "Ok", val |-> None]

\* A completed service call leaves its outcome in the stores and the ledger.
Completes(op, user_id, o) ==
    /\ Len(audits) < MaxAudits
    /\ audits' = o.audits
    /\ permissions' = o.permissions
    /\ roles' = o.roles
    /\ repoCalls' = repoCalls + o.calls
    /\ pret' = [op |-> op, user_id |-> user_id, audit |-> o.audit, repo |-> o.repo,
                err |-> o.err, val |-> o.val]
    /\ UNCHANGED <<userVars, authVars>>

PCreate(p, user_id, auditRes, fail) ==
    Completes("create", user_id,
              ServiceCreate(audits, permissions, roles, p, user_id, auditRes, fail))

PFindAll(user_id, auditRes, fail) ==
    Completes("find_all", user_id,
              ServiceFindAll(audits, permissions, roles, user_id, auditRes, fail))

PFindByIdVec(id_vec, user_id, auditRes, fail) ==
    Completes("find_by_id_vec", user_id,
              ServiceFindByIdVec(audits, permissions, roles, id_vec, user_id, auditRes, fail))

PFindById(id, user_id, auditRes, fail) ==
    Completes("find_by_id", user_id,
              ServiceFindById(audits, permissions, roles, id, user_id, auditRes, fail))

PFindByName(name, user_id, auditRes, fail) ==
    Completes("find_by_name", user_id,
              ServiceFindByName(audits, permissions, roles, name, user_id, auditRes, fail))

PUpdate(p, user_id, auditRes, fail) ==
    Completes("update", user_id,
              ServiceUpdate(audits, permissions, roles, p, user_id, auditRes, fail))

PDelete(id, user_id, auditRes, fail) ==
    Completes("delete", user_id,
              ServiceDelete(audits, permissions, roles, id, user_id, auditRes, fail))

PSearch(text, user_id, auditRes, fail) ==
    Completes("search", user_id,
              ServiceSearch(audits, permissions, roles, text, user_id, auditRes, fail))

\* The role side, outside the permission service: a role is given a stored
\* permission.
AssignPermission(r, p) ==
    /\ p \in DOMAIN permissions
    /\ p \notin {roles[r].permissions[1][k] : k \in
                   DOMAIN (IF roles[r].permissions = None THEN <<>> ELSE roles[r].permissions[1])}
    /\ roles' = [roles EXCEPT ![r].permissions =
                   Some((IF @ = None THEN <<>> ELSE @[1]) \o <<p>>)]
    /\ pret' = NoServiceCall
    /\ UNCHANGED <<permissions, audits, repoCalls>>
    /\ UNCHANGED <<userVars, authVars>>

\* ---------------------------------------------------------------- concurrent creates
\* Two requests run UserRepository::create concurrently.  Each store call is
\* one step (the function suspends at every .await): the username lookup, the
\* email lookup, the insert and the re-read.
Procs == {1, 2}

Request(user, seen) == [user |-> user, seen |-> seen, err |-> "Ok", val |-> None]

Returns(p, r) ==
    /\ pc' = [pc EXCEPT ![p] = "returned"]
    /\ req' = [req EXCEPT ![p].err = r.err, ![p].val = r.val]

\* create, lines 51-60
RaceCheckUsername(p, value, id) ==
    /\ pc[p] = "idle"
    /\ LET user == UserFrom(value, id, now)
       IN  \E r \in FindByUsername(users, user.username, FALSE) :
             IF r.err # "Ok"
             THEN /\ pc' = [pc EXCEPT ![p] = "returned"]
                  /\ req' = [req EXCEPT ![p] = [Request(user, DOMAIN users) EXCEPT !.err = r.err]]
             ELSE IF r.val # None
             THEN /\ pc' = [pc EXCEPT ![p] = "returned"]
                  /\ req' = [req EXCEPT ![p] = [Request(user, DOMAIN users)
                                                  EXCEPT !.err = "UsernameAlreadyTaken"]]
             ELSE /\ pc' = [pc EXCEPT ![p] = "checkedUsername"]
                  /\ req' = [req EXCEPT ![p] = Request(user, DOMAIN users)]
    /\ UNCHANGED <<users, now, ret>>
    /\ UNCHANGED <<permVars, authVars>>

\* create, lines 62-71
RaceCheckEmail(p) ==
    /\ pc[p] = "checkedUsername"
    /\ \E r \in FindByEmail(users, req[p].user.email, FALSE) :
         IF r.err # "Ok" THEN Returns(p, r)
         ELSE IF r.val # None THEN Returns(p, Err("EmailAlreadyTaken"))
         ELSE /\ pc' = [pc EXCEPT ![p] = "checkedEmail"]
              /\ req' = [req EXCEPT ![p].seen = DOMAIN users]
    /\ UNCHANGED <<users, now, ret>>
    /\ UNCHANGED <<permVars, authVars>>

\* create, lines 73-81
RaceInsert(p) ==
    /\ pc[p] = "checkedEmail"
    /\ LET ins == InsertOne(users, ToDocument(req[p].user), FALSE)
       IN  IF ~ins.ok
           THEN Returns(p, Err("MongoDbError")) /\ UNCHANGED users
           ELSE /\ users' = ins.coll
                /\ pc' = [pc EXCEPT ![p] = "inserted"]
                /\ UNCHANGED req
    /\ UNCHANGED <<now, ret>>
    /\ UNCHANGED <<permVars, authVars>>

\* Mutation of RaceReread: the inserted user is returned without the re-read.
RaceRereadSkipped(p) ==
    /\ pc[p] = "inserted"
    /\ Returns(p, Ok(Some(req[p].user)))
    /\ UNCHANGED <<users, now, ret>>
    /\ UNCHANGED <<permVars, authVars>>

\* create, lines 83-89
RaceReread(p) ==
    /\ pc[p] = "inserted"
    /\ \E r \in FindById(users, req[p].user.id, FALSE) :
         IF r.err # "Ok" THEN Returns(p, r)
         ELSE IF r.val # None THEN Returns(p, Ok(r.val))
         ELSE Returns(p, Err("UserNotFound"))
    /\ UNCHANGED <<users, now, ret>>
    /\ UNCHANGED <<permVars, authVars>>

\* ---------------------------------------------------------------- authentication gateway
Passwords == {"pw1", "pw2"}

\* Argon2 under the process-wide salt: deterministic, and passwords that
\* differ hash to values that differ.
HashPassword(password) ==
    CASE password = "pw1" -> "h1"
      [] password = "pw2" -> "h2"

\* The token service.  A token carries its subject; signed tells a token the
\* service issued from a forged or tampered one, expired tells whether its
\* expiry has passed when it is presented.
JwtToken(subject, signed, expired) ==
    [sub |-> subject, signed |-> signed, expired |-> expired]

\* jwt_service.generate_jwt_token(subject): Option<String>
GenerateJwtToken(subject, fail) ==
    IF fail THEN None ELSE Some(JwtToken(subject, TRUE, FALSE))

\* jwt_service.verify_jwt_token(token): the subject, or an error.
VerifyJwtToken(token) ==
    IF token.signed /\ ~token.expired THEN Ok(token.sub) ELSE Err("TokenError")

\* user_service.find_by_username(username, db): the repository's lookup.
UserServiceFindByUsername(coll, username, fail) == FindByUsername(coll, username, fail)

\* user_service.find_by_email(email, db): the repository's lookup.
UserServiceFindByEmail(coll, email, fail) == FindByEmail(coll, email, fail)

\* user_service.create(user, db): the repository's create.
UserServiceCreate(coll, user, fault) == CreateOutcomes(coll, user, fault)

\* role_service.find_by_name(name, db)
RoleFindByName(rls, name, fail) ==
    IF fail THEN Err("RoleError")
    ELSE IF \E r \in DOMAIN rls : rls[r].name = name
         THEN Ok(Some(rls[CHOOSE r \in DOMAIN rls : rls[r].name = name]))
         ELSE Ok(None)

\* role_service.find_by_id_vec(id_vec, db): the roles found.
RoleFindByIdVec(rls, id_vec, fail) ==
    IF fail THEN Err("RoleError")
    ELSE Ok({rls[r] : r \in DOMAIN rls \cap {id_vec[k] : k \in DOMAIN id_vec}})

\* permission_service.find_by_id_vec(id_vec, db), as the controller calls it.
PermissionServiceFindByIdVec(perms, rls, id_vec, fail) ==
    LET o == PermissionFindByIdVec(perms, rls, id_vec, fail)
    IN  IF o.err = "Ok" THEN Ok(o.val) ELSE Err("PermissionError")

\* User::from(register_request): as From<CreateUser>, the roles the request
\* names included.
UserFromRegister(request, id, t) ==
    [id |-> id, username |-> request.username, email |-> request.email,
     first_name |-> request.first_name, last_name |-> request.last_name,
     password |-> request.password, roles |-> request.roles,
     created_at |-> t, updated_at |-> t, enabled |-> TRUE]

\* SimpleUserDto::from(user): the user without its password and its role ids.
SimpleUserDtoFrom(user) ==
    [id |-> user.id, username |-> user.username, email |-> user.email,
     first_name |-> user.first_name, last_name |-> user.last_name,
     created_at |-> user.created_at, updated_at |-> user.updated_at,
     enabled |-> user.enabled, roles |-> None]

\* SimpleRoleDto::from(role)
SimpleRoleDtoFrom(role) == [id |-> role.id, name |-> role.name, permissions |-> None]

\* SimplePermissionDto::from(permission)
SimplePermissionDtoFrom(p) == [id |-> p.id, name |-> p.name, description |-> p.description]

\* ConvertRole, but a role whose permission ids resolve to nothing fails the
\* assembly.
ConvertRoleFailsUnresolved(r, rls, perms, fault) ==
    IF r.permissions = None THEN Ok(SimpleRoleDtoFrom(r))
    ELSE LET found == PermissionServiceFindByIdVec(perms, rls, r.permissions[1],
                                                   fault \in {"permission", r.id})
         IN  IF found.err # "Ok" \/ found.val = {} THEN Err("PermissionError")
             ELSE Ok([SimpleRoleDtoFrom(r) EXCEPT
                        !.permissions = Some({SimplePermissionDtoFrom(p) : p \in found.val})])

\* convert_user_to_simple_dto, lines 57-82: the DTO of one role.  The lists of
\* the DTOs are sets: the order of a list is that of the store's answer.  The
\* permission lookup fails under the fault "permission" (every such lookup
\* fails) and under the fault that is the id of the role (that one fails).
ConvertRole(r, rls, perms, fault) ==
    IF r.permissions = None THEN Ok(SimpleRoleDtoFrom(r))
    ELSE LET found == PermissionServiceFindByIdVec(perms, rls, r.permissions[1],
                                                   fault \in {"permission", r.id})
         IN  IF found.err # "Ok" THEN Err("PermissionError")
             ELSE IF found.val = {} THEN Ok(SimpleRoleDtoFrom(r))
             ELSE Ok([SimpleRoleDtoFrom(r) EXCEPT !.permissions =
                        Some({SimplePermissionDtoFrom(p) : p \in found.val})])

\* ConvertUserToSimpleDto, but a role whose permission lookup failed is left
\* out and the DTO of the others is returned.
ConvertUserSkipsFailedRoles(user, rls, perms, fault) ==
    IF user.roles = None THEN Ok(SimpleUserDtoFrom(user))
    ELSE LET found == RoleFindByIdVec(rls, user.roles[1], fault = "role")
         IN  IF found.err # "Ok" THEN Err("RoleError")
             ELSE IF found.val = {} THEN Ok(SimpleUserDtoFrom(user))
             ELSE Ok([SimpleUserDtoFrom(user) EXCEPT
                        !.roles = Some({ConvertRole(r, rls, perms, fault).val :
                                          r \in {x \in found.val :
                                                   ConvertRole(x, rls, perms, fault).err = "Ok"}})])

\* convert_user_to_simple_dto, lines 35-90.
ConvertUserToSimpleDto(user, rls, perms, fault) ==
    IF user.roles = None THEN Ok(SimpleUserDtoFrom(user))
    ELSE LET found == RoleFindByIdVec(rls, user.roles[1], fault = "role")
         IN  IF found.err # "Ok" THEN Err("RoleError")
             ELSE IF found.val = {} THEN Ok(SimpleUserDtoFrom(user))
             ELSE IF \E r \in found.val : ConvertRole(r, rls, perms, fault).err # "Ok"
                  THEN Err("PermissionError")
             ELSE Ok([SimpleUserDtoFrom(user) EXCEPT !.roles =
                        Some({ConvertRole(r, rls, perms, fault).val : r \in found.val})])

\* An HTTP response: its status, its body (None: empty), and the session
\* tokens the body carries; call is the UserRepository call the handler made
\* last (None: it made none), coll the user collection it leaves.
Response(status, body, tokens, call, coll) ==
    [status |-> status, body |-> body, tokens |-> tokens, call |-> call, coll |-> coll]

\* LoginResponse::new(token)
LoginResponse(token) == [token |-> token]

\* Mutation of LoginVerify: a disabled account is answered 403.
LoginVerifyTellsDisabled(coll, user, request, fault, call) ==
    IF fault = "salt"
    THEN Response(500, Some("Failed to generate salt"), {}, call, coll)
    ELSE IF fault = "hash"
    THEN Response(500, Some("Failed to hash password"), {}, call, coll)
    ELSE IF ~user.enabled
    THEN Response(403, None, {}, call, coll)
    ELSE IF HashPassword(request.password) # user.password
    THEN Response(400, None, {}, call, coll)
    ELSE LET token == GenerateJwtToken(user.email, fault = "token")
         IN  IF token # None
             THEN Response(200, Some(LoginResponse(token[1])), {token[1]}, call, coll)
             ELSE Response(500, Some("Failed to generate JWT token"), {}, call, coll)

\* Mutation of LoginVerify: the password is not compared.
LoginVerifyIgnoresPassword(coll, user, request, fault, call) ==
    IF fault = "salt"
    THEN Response(500, Some("Failed to generate salt"), {}, call, coll)
    ELSE IF fault = "hash"
    THEN Response(500, Some("Failed to hash password"), {}, call, coll)
    ELSE IF ~user.enabled
    THEN Response(400, None, {}, call, coll)
    ELSE LET token == GenerateJwtToken(user.email, fault = "token")
         IN  IF token # None
             THEN Response(200, Some(LoginResponse(token[1])), {token[1]}, call, coll)
             ELSE Response(500, Some("Failed to generate JWT token"), {}, call, coll)

\* login, lines 122-149: the user was found.
LoginVerify(coll, user, request, fault, call) ==
    IF fault = "salt"
    THEN Response(500, Some("Failed to generate salt"), {}, call, coll)
    ELSE IF fault = "hash"
    THEN Response(500, Some("Failed to hash password"), {}, call, coll)
    ELSE IF HashPassword(request.password) # user.password \/ ~user.enabled
    THEN Response(400, None, {}, call, coll)
    ELSE LET token == GenerateJwtToken(user.email, fault = "token")
         IN  IF token # None
             THEN Response(200, Some(LoginResponse(token[1])), {token[1]}, call, coll)
             ELSE Response(500, Some("Failed to generate JWT token"), {}, call, coll)

\* login, lines 92-150.
LoginOutcomes(coll, request, fault) ==
    IF request.username = ""
    THEN {Response(400, Some("Username is required"), {}, None, coll)}
    ELSE IF request.password = ""
    THEN {Response(400, Some("Password is required"), {}, None, coll)}
    ELSE { LET call == Some(Returned("find_by_username", request.username,
                                     IF fault = "lookup" THEN 1 ELSE 0, r))
           IN  IF r.err # "Ok" \/ r.val = None
               THEN Response(400, None, {}, call, coll)
               ELSE LoginVerify(coll, r.val[1], request, fault, call) :
             r \in UserServiceFindByUsername(coll, request.username, fault = "lookup") }

\* The store call of create that a fault of register makes fail.
CreateFault(fault) ==
    CASE fault = "lookup" -> 1
      [] fault = "insert" -> 3
      [] OTHER -> 0

\* Mutation of RegisterCreate: the password is stored as it was supplied.
RegisterCreatePlaintext(coll, request, id, t, fault, default_roles) ==
    LET user == [UserFromRegister(request, id, t) EXCEPT !.roles = default_roles]
    IN  { IF o.err = "Ok"
          THEN Response(200, None, {},
                        Some(Returned("create", user, CreateFault(fault), o)), o.coll)
          ELSE Response(500, Some(o.err), {},
                        Some(Returned("create", user, CreateFault(fault), o)), o.coll) :
            o \in UserServiceCreate(coll, user, CreateFault(fault)) }

\* Mutation of RegisterCreate: a successful registration is answered with a
\* token of the new user.
RegisterCreateLogsIn(coll, request, id, t, fault, default_roles) ==
    IF fault = "salt"
    THEN {Response(500, Some("Failed to generate salt"), {}, None, coll)}
    ELSE IF fault = "hash"
    THEN {Response(500, Some("Failed to hash password"), {}, None, coll)}
    ELSE LET user == [UserFromRegister(request, id, t) EXCEPT
                        !.password = HashPassword(request.password),
                        !.roles = default_roles]
         IN  { IF o.err = "Ok"
               THEN Response(200, Some(LoginResponse(JwtToken(user.email, TRUE, FALSE))),
                             {JwtToken(user.email, TRUE, FALSE)},
                             Some(Returned("create", user, CreateFault(fault), o)), o.coll)
               ELSE Response(500, Some(o.err), {},
                             Some(Returned("create", user, CreateFault(fault), o)), o.coll) :
                 o \in UserServiceCreate(coll, user, CreateFault(fault)) }

\* Mutation of RegisterCreate: the roles of the request are kept when no
\* default role was found.
RegisterCreateKeepsRequestRoles(coll, request, id, t, fault, default_roles) ==
    IF fault = "salt"
    THEN {Response(500, Some("Failed to generate salt"), {}, None, coll)}
    ELSE IF fault = "hash"
    THEN {Response(500, Some("Failed to hash password"), {}, None, coll)}
    ELSE LET user == [UserFromRegister(request, id, t) EXCEPT
                        !.password = HashPassword(request.password),
                        !.roles = IF default_roles = None THEN @ ELSE default_roles]
         IN  { IF o.err = "Ok"
               THEN Response(200, None, {},
                             Some(Returned("create", user, CreateFault(fault), o)), o.coll)
               ELSE Response(500, Some(o.err), {},
                             Some(Returned("create", user, CreateFault(fault), o)), o.coll) :
                 o \in UserServiceCreate(coll, user, CreateFault(fault)) }

\* register, lines 189-225: the default role was looked up.
RegisterCreate(coll, request, id, t, fault, default_roles) ==
    IF fault = "salt"
    THEN {Response(500, Some("Failed to generate salt"), {}, None, coll)}
    ELSE IF fault = "hash"
    THEN {Response(500, Some("Failed to hash password"), {}, None, coll)}
    ELSE LET user == [UserFromRegister(request, id, t) EXCEPT
                        !.password = HashPassword(request.password),
                        !.roles = default_roles]
         IN  { IF o.err = "Ok"
               THEN Response(200, None, {},
                             Some(Returned("create", user, CreateFault(fault), o)), o.coll)
               ELSE Response(500, Some(o.err), {},
                             Some(Returned("create", user, CreateFault(fault), o)), o.coll) :
                 o \in UserServiceCreate(coll, user, CreateFault(fault)) }

\* register, lines 152-226.
RegisterOutcomes(coll, rls, request, id, t, fault) ==
    IF request.username = ""
    THEN {Response(400, Some("Empty usernames are not allowed"), {}, None, coll)}
    ELSE IF request.password = ""
    THEN {Response(400, Some("Empty passwords are not allowed"), {}, None, coll)}
    ELSE IF request.email = ""
    THEN {Response(400, Some("Empty email addresses are not allowed"), {}, None, coll)}
    ELSE LET role == RoleFindByName(rls, "DEFAULT", fault = "role")
         IN  IF role.err # "Ok"
             THEN {Response(500, Some(role.err), {}, None, coll)}
             ELSE RegisterCreate(coll, request, id, t, fault,
                                 IF role.val # None THEN Some(<<role.val[1].id>>) ELSE None)

\* The Authorization header: absent, or a scheme and what follows it.
Bearer(token) == Some([scheme |-> "Bearer", token |-> token])

\* current_user, lines 242-265: the token was verified.
CurrentResolve(coll, rls, perms, subject, fault) ==
    { LET call == Some(Returned("find_by_email", subject,
                                IF fault = "lookup" THEN 1 ELSE 0, r))
      IN  IF r.err # "Ok" \/ r.val = None
          THEN Response(403, None, {}, call, coll)
          ELSE LET dto == ConvertUserToSimpleDto(r.val[1], rls, perms, fault)
               IN  IF dto.err = "Ok"
                   THEN Response(200, Some(dto.val), {}, call, coll)
                   ELSE Response(403, None, {}, call, coll) :
        r \in UserServiceFindByEmail(coll, subject, fault = "lookup") }

\* current_user, lines 228-271.
CurrentOutcomes(coll, rls, perms, header, fault) ==
    IF header = None \/ header[1].scheme # "Bearer"
    THEN {Response(403, None, {}, None, coll)}
    ELSE LET username == VerifyJwtToken(header[1].token)
         IN  IF username.err # "Ok"
             THEN {Response(403, None, {}, None, coll)}
             ELSE CurrentResolve(coll, rls, perms, username.val, fault)

\* ---------------------------------------------------------------- gateway requests
RegisterRequests ==
    { [username |-> un, email |-> em, first_name |-> "Ann", last_name |-> "Lee",
       password |-> pw, roles |-> rl] :
         un \in Usernames \cup {""}, em \in Emails \cup {""}, pw \in {"pw1", ""},
         rl \in {None, Some(<<"r2">>)} }

LoginRequests ==
    { [username |-> un, password |-> pw] :
         un \in Usernames \cup {""}, pw \in Passwords \cup {""} }

\* The tokens a caller can present: those issued, those issued and expired by
\* now, and forged ones.
PresentedTokens ==
    issued \cup {[t EXCEPT !.expired = TRUE] : t \in issued}
           \cup {JwtToken(e, FALSE, FALSE) : e \in Emails}

Headers ==
    {None} \cup {Bearer(t) : t \in PresentedTokens}
           \cup {Some([scheme |-> "Basic", token |-> JwtToken("a@x", FALSE, FALSE)])}

LoginFaults == {"none", "lookup", "salt", "hash", "token"}
RegisterFaults == {"none", "role", "salt", "hash", "lookup", "insert"}
CurrentFaults == {"none", "lookup", "role", "permission"}

\* What an administrator changes of a stored user: its email, whether it is
\* enabled.
Revisions(coll) ==
    { [FromDocument(coll[i]) EXCEPT !.email = em, !.enabled = en] :
        i \in DOMAIN coll, em \in Emails, en \in BOOLEAN }

NoConversion == [user |-> None, fault |-> "none", err |-> "Ok", val |-> None]

NoResponse ==
    [op |-> "none", request |-> None, fault |-> "none", status |-> 0,
     body |-> None, tokens |-> {}]

\* ---------------------------------------------------------------- gateway actions
\* The response is sent, the collection is as the handler left it, and the
\* tokens of the response are with the caller.
RespondsCall(op, request, fault, o) ==
    /\ resp' = [op |-> op, request |-> request, fault |-> fault,
                status |-> o.status, body |-> o.body, tokens |-> o.tokens]
    /\ issued' = issued \cup o.tokens
    /\ users' = o.coll
    /\ ret' = IF o.call # None THEN o.call[1] ELSE NoCall
    /\ UNCHANGED <<pc, req, assembled, converted>>

Responds(op, request, fault, o) ==
    RespondsCall(op, request, fault, o) /\ UNCHANGED <<permVars, bound>>

Login(request, fault) ==
    \E o \in LoginOutcomes(users, request, fault) :
      Responds("login", request, fault, o) /\ UNCHANGED now

Register(request, id, t, fault) ==
    \E o \in RegisterOutcomes(users, roles, request, id, t, fault) :
      Responds("register", request, fault, o) /\ now' = t

CurrentUser(header, fault) ==
    \E o \in CurrentOutcomes(users, roles, permissions, header, fault) :
      Responds("current", header, fault, o) /\ UNCHANGED now

\* An administrator's update of a stored user, outside the gateway.
AdminUpdate(user) ==
    /\ UpdateCall(user, 0, now)
    /\ resp' = NoResponse
    /\ UNCHANGED <<issued, assembled, converted, bound>>

\* An administrator's delete of a stored user, outside the gateway.
AdminDelete(id) ==
    /\ DeleteCall(id, 0)
    /\ resp' = NoResponse
    /\ UNCHANGED <<issued, assembled, converted, bound>>

\* ---------------------------------------------------------------- sessions
\* UserService::find_by_username with an actor and the audit service: the
\* audit record of the read is written first, and the lookup is made only
\* when that write succeeded.
UserServiceFindByUsernameAudited(ledger, coll, username, user_id, auditRes, fail) ==
    LET a == AuditServiceCreate(ledger,
               AuditNew(user_id, "Read", username, "UserName", "User"), auditRes)
    IN  IF a.err # "Ok"
        THEN {[err |-> "Audit", val |-> None, call |-> None, audits |-> ledger]}
        ELSE {[err |-> r.err, val |-> r.val,
               call |-> Some(Returned("find_by_username", username,
                                      IF fail THEN 1 ELSE 0, r)),
               audits |-> a.ledger] : r \in FindByUsername(coll, username, fail)}

\* get_user_id_from_token: the id of the user the token's subject names, or
\* nothing.
GetUserIdFromToken(ledger, coll, header, auditRes, fail) ==
    IF header = None \/ header[1].scheme # "Bearer"
    THEN {[val |-> None, call |-> None, audits |-> ledger]}
    ELSE LET subject == VerifyJwtToken(header[1].token)
         IN  IF subject.err # "Ok"
             THEN {[val |-> None, call |-> None, audits |-> ledger]}
             ELSE {[val |-> IF r.err = "Ok" /\ r.val # None THEN Some(r.val[1].id) ELSE None,
                    call |-> r.call, audits |-> r.audits] :
                     r \in UserServiceFindByUsernameAudited(ledger, coll, subject.val,
                                                            "AUTH-RS", auditRes, fail)}

\* A handler asks the extractor for the caller's user id.  The answer is kept
\* as a response without a status: it goes to the handler, not to the caller.
ExtractUserId(header, auditRes, fail) ==
    \E o \in GetUserIdFromToken(audits, users, header, auditRes, fail) :
      /\ Len(audits) < MaxAudits
      /\ resp' = [op |-> "user_id", request |-> header,
                  fault |-> IF auditRes # "Ok" THEN "audit"
                            ELSE IF fail THEN "lookup" ELSE "none",
                  status |-> 0, body |-> o.val, tokens |-> {}]
      /\ audits' = o.audits
      /\ ret' = IF o.call # None THEN o.call[1] ELSE NoCall
      /\ UNCHANGED <<users, now, pc, req, permissions, roles, repoCalls, pret>>
      /\ UNCHANGED <<issued, assembled, converted, bound>>

\* A login whose token, if one is issued, is entered in the history with the
\* user it went to: the user the lookup of the login returned.
SessionLogin(request, fault) ==
    \E o \in LoginOutcomes(users, request, fault) :
      /\ RespondsCall("login", request, fault, o)
      /\ bound' = bound \cup {<<t, o.call[1].val[1].id>> : t \in o.tokens}
      /\ UNCHANGED <<now, permVars>>

\* ---------------------------------------------------------------- DTO assembly
\* The role lists a user can carry: none, an empty one, ids of stored roles
\* and ids no stored role has.
RoleLists ==
    {None, Some(<<>>), Some(<<"r1">>), Some(<<"r1", "r2">>), Some(<<"r3">>),
     Some(<<"r2", "r3">>)}

\* The permission lists a role can carry.
PermissionLists ==
    {None, Some(<<>>), Some(<<"p1">>), Some(<<"p2">>), Some(<<"p1", "p2">>)}

\* The lookups that can fail during an assembly: the role lookup, every
\* permission lookup, or the permission lookup of one role.
ConvertFaults == {"none", "role", "permission"} \cup RoleIds

\* convert_user_to_simple_dto called on a user, against the stored roles and
\* permissions.
Convert(user, fault) ==
    LET r == ConvertUserToSimpleDto(user, roles, permissions, fault)
    IN  /\ assembled' = [user |-> Some(user), fault |-> fault, err |-> r.err,
                         val |-> IF r.err = "Ok" THEN Some(r.val) ELSE None]
        /\ UNCHANGED <<userVars, permVars, resp, issued, converted, bound>>

InitUsers ==
    /\ users = <<>>
    /\ now = 0
    /\ ret = NoCall
    /\ pc = [p \in Procs |-> "idle"]
    /\ req = [p \in Procs |-> Request(None, {})]

InitPermissions ==
    /\ permissions = <<>>
    /\ roles = [r \in RoleIds |-> [id |-> r, name |-> r, permissions |-> None]]
    /\ audits = <<>>
    /\ repoCalls = 0
    /\ pret = NoServiceCall

InitAuth ==
    /\ resp = NoResponse
    /\ issued = {}
    /\ assembled = NoConversion
    /\ converted = [value |-> None, user |-> None]
    /\ bound = {}

\* The stores an assembly can meet: each role carries any permission list,
\* and any of the permissions may be missing from the store.
InitDto ==
    /\ InitUsers
    /\ InitAuth
    /\ permissions \in { [i \in held |->
                            [id |-> i, name |-> IF i = "p1" THEN "read" ELSE "write",
                             description |-> "d"]] : held \in SUBSET PermissionIds }
    /\ roles \in { [r \in RoleIds |-> [id |-> r, name |-> r, permissions |-> l[r]]] :
                     l \in [RoleIds -> PermissionLists] }
    /\ audits = <<>>
    /\ repoCalls = 0
    /\ pret = NoServiceCall

NextDto ==
    \E id \in UserIds, un \in Usernames, rl \in RoleLists, fault \in ConvertFaults :
      Convert([UserFrom([username |-> un, email |-> "a@x", first_name |-> "Ann",
                         last_name |-> "Lee", password |-> "h1", roles |-> rl],
                        id, now) EXCEPT !.enabled = (id = "u1")],
              fault)

\* DTO assembly applied to users with every role list, against every store
\* of roles and permissions, with and without a failing lookup.
SpecDto == InitDto /\ [][NextDto]_vars

Init == InitUsers /\ InitPermissions /\ InitAuth

NextUser ==
    \/ \E value \in NewUsers, id \in UserIds, t \in now..MaxTime :
         Create(value, id, 0, t)
    \/ \E t \in now..MaxTime : \E user \in UpdateUsers(t) :
         Update(user, 0, t)
    \/ \E id \in UserIds \cup {""} : Delete(id, 0)

\* The user repository, its calls executing one at a time, over a store that
\* is up: no store call fails but an insert under an _id already stored.
SpecUser == Init /\ [][NextUser]_vars

NextConvert ==
    \E value \in CreateUser, id \in UserIds, t \in now..MaxTime :
      CreateFrom(value, id, t)

\* Creation requests converted into users and handed to the repository, one
\* at a time.
SpecConvert == Init /\ [][NextConvert]_vars

NextRace ==
    \/ \E p \in Procs, value \in NewUsers, id \in UserIds : RaceCheckUsername(p, value, id)
    \/ \E p \in Procs : RaceCheckEmail(p)
    \/ \E p \in Procs : RaceInsert(p)
    \/ \E p \in Procs : RaceReread(p)

\* Two create calls interleaved at their store calls, over a store that is up.
SpecRace == Init /\ [][NextRace]_vars

\* Uuid::new_v4(): no two requests are given the same id.
RequestId(p) == IF p = 1 THEN "u1" ELSE "u2"

NextRaceDelete ==
    \/ \E p \in Procs, value \in NewUsers : RaceCheckUsername(p, value, RequestId(p))
    \/ \E p \in Procs : RaceCheckEmail(p)
    \/ \E p \in Procs : RaceInsert(p)
    \/ \E p \in Procs : RaceReread(p)
    \/ \E id \in UserIds : Delete(id, 0)

\* Two create calls, each under its own fresh id, interleaved at their store
\* calls with delete calls of other callers, over a store that is up.
SpecRaceDelete == Init /\ [][NextRaceDelete]_vars

NextStore ==
    \/ \E value \in NewUsers, id \in UserIds, fault \in 0..4 : Create(value, id, fault, now)
    \/ \E user \in UpdateUsers(now), fault \in 0..3 : Update(user, fault, now)
    \/ \E id \in UserIds \cup {""}, fault \in 0..1 : Delete(id, fault)
    \/ \E fault \in 0..2 : CallFindAll(fault)
    \/ \E id \in UserIds \cup {""}, fault \in 0..1 : CallFindById(id, fault)
    \/ \E username \in Usernames \cup {""}, fault \in 0..1 : CallFindByUsername(username, fault)
    \/ \E email \in Emails \cup {""}, fault \in 0..1 : CallFindByEmail(email, fault)

\* Every operation of the user repository, its calls executing one at a time,
\* over a store of which one call per operation may fail: fault is the number
\* of the store call that fails, if the operation gets that far (0: none).
SpecStore == Init /\ [][NextStore]_vars

NextPermission ==
    \/ \E p \in Permissions, u \in Actors, a \in {"Ok"} \cup AuditErrors, f \in BOOLEAN :
         PCreate(p, u, a, f)
    \/ \E u \in Actors, a \in {"Ok"} \cup AuditErrors, f \in BOOLEAN :
         PFindAll(u, a, f)
    \/ \E v \in {<<"p1">>, <<"p2", "p1">>}, u \in Actors,
          a \in {"Ok"} \cup AuditErrors, f \in BOOLEAN :
         PFindByIdVec(v, u, a, f)
    \/ \E id \in PermissionIds, u \in Actors, a \in {"Ok"} \cup AuditErrors, f \in BOOLEAN :
         PFindById(id, u, a, f)
    \/ \E n \in PermissionNames, u \in Actors, a \in {"Ok"} \cup AuditErrors, f \in BOOLEAN :
         PFindByName(n, u, a, f)
    \/ \E p \in Permissions, u \in Actors, a \in {"Ok"} \cup AuditErrors, f \in BOOLEAN :
         PUpdate(p, u, a, f)
    \/ \E id \in PermissionIds, u \in Actors, a \in {"Ok"} \cup AuditErrors, f \in BOOLEAN :
         PDelete(id, u, a, f)
    \/ \E n \in PermissionNames, u \in Actors, a \in {"Ok"} \cup AuditErrors, f \in BOOLEAN :
         PSearch(n, u, a, f)
    \/ \E r \in RoleIds, p \in PermissionIds : AssignPermission(r, p)

\* The permission service with the audit ledger, the permission store and the
\* role store.
SpecPermission == Init /\ [][NextPermission]_vars

\* The role store of the gateway specification: with or without a role named
\* DEFAULT.
InitGateway ==
    /\ InitUsers
    /\ InitAuth
    /\ permissions = <<>>
    /\ roles \in { [r \in RoleIds |-> [id |-> r, name |-> r, permissions |-> None]],
                   [r \in RoleIds |-> [id |-> r,
                                       name |-> IF r = "r1" THEN "DEFAULT" ELSE r,
                                       permissions |-> None]] }
    /\ audits = <<>>
    /\ repoCalls = 0
    /\ pret = NoServiceCall

\* A failure is injected into the requests that get as far as the calls that
\* can fail: those that pass the handler's own validation.
NextGateway ==
    \/ \E request \in RegisterRequests, id \in UserIds \ DOMAIN users :
         \E fault \in (IF "" \in {request.username, request.password, request.email}
                       THEN {"none"} ELSE RegisterFaults) :
            Register(request, id, now, fault)
    \/ \E request \in LoginRequests :
         \E fault \in (IF "" \in {request.username, request.password}
                       THEN {"none"} ELSE LoginFaults) :
            Login(request, fault)
    \/ \E header \in Headers :
         \E fault \in (IF header \in {Bearer(t) : t \in issued}
                       THEN CurrentFaults ELSE {"none"}) :
            CurrentUser(header, fault)
    \/ \E user \in Revisions(users) : AdminUpdate(user)
    \/ \E id \in DOMAIN users : AdminDelete(id)

\* The authentication gateway: register, login and current-user requests
\* handled one at a time, while an administrator updates and deletes users.
SpecGateway == InitGateway /\ [][NextGateway]_vars

\* Registrations with every field given and no roles asked for.
SessionRegistrations ==
    {r \in RegisterRequests : "" \notin {r.username, r.email, r.password} /\ r.roles = None}

\* Logins with a username and a password, right or wrong.
SessionLogins == {r \in LoginRequests : "" \notin {r.username, r.password}}

NextSession ==
    \/ \E request \in SessionRegistrations, id \in UserIds \ DOMAIN users :
         Register(request, id, now, "none")
    \/ \E request \in SessionLogins : SessionLogin(request, "none")
    \/ \E token \in PresentedTokens : CurrentUser(Bearer(token), "none")
    \/ \E token \in PresentedTokens, a \in {"Ok", "LedgerDown"}, f \in BOOLEAN :
         ExtractUserId(Bearer(token), a, f)
    \/ \E user \in Revisions(users) : AdminUpdate(user)
    \/ \E id \in DOMAIN users : AdminDelete(id)

\* Sessions: users register and log in, present their tokens (and expired
\* and forged ones) to the current-user handler and to the extractor, while
\* an administrator updates and deletes users.  No role is named DEFAULT.
SpecSession == Init /\ [][NextSession]_vars

\* ================================================================ properties
RolePermissions(r) ==
    IF roles[r].permissions = None THEN {}
    ELSE {roles[r].permissions[1][k] : k \in DOMAIN roles[r].permissions[1]}

\* C1: in every PermissionService operation, when the audit write fails the
\* operation returns Error::Audit carrying that audit error, the repository
\* is not invoked, and the permission store and the role store are left as
\* they were.
AuditFailureAborts ==
    [][ (pret'.op # "none" /\ pret'.audit # "Ok") =>
          /\ pret'.err = "Audit"
          /\ pret'.val = Some(pret'.audit)
          /\ pret'.repo = None
          /\ repoCalls' = repoCalls
          /\ permissions' = permissions
          /\ roles' = roles ]_vars

\* C1 witness: a delete whose audit write failed, over a store that holds a
\* permission referenced by a role.
AuditFailureSeen ==
    /\ pret.op = "delete"
    /\ pret.audit = "LedgerTimeout"
    /\ pret.err = "Audit"
    /\ \E r \in RoleIds : RolePermissions(r) # {}

\* The action kind the ledger records for each operation.
ActionOf(op) ==
    CASE op = "create" -> "Create"
      [] op \in {"find_all", "find_by_id", "find_by_name", "find_by_id_vec"} -> "Read"
      [] op = "update" -> "Update"
      [] op = "delete" -> "Delete"
      [] op = "search" -> "Search"

\* C2: every PermissionService call whose audit write succeeds appends exactly
\* one Audit record to the ledger: its actor is the caller's user_id, its
\* resource type is Permission and its action kind matches the operation
\* (reads included).
AuditAppendsOne ==
    [][ (pret'.op # "none" /\ pret'.audit = "Ok") =>
          /\ Len(audits') = Len(audits) + 1
          /\ SubSeq(audits', 1, Len(audits)) = audits
          /\ audits'[Len(audits')].user_id = pret'.user_id
          /\ audits'[Len(audits')].resource_type = "Permission"
          /\ audits'[Len(audits')].action = ActionOf(pret'.op) ]_vars

\* C2 witness: a search audited after a read, by two different actors.
AuditTrailSeen ==
    /\ pret.op = "search"
    /\ pret.audit = "Ok"
    /\ Len(audits) = 2
    /\ audits[1].action = "Read"
    /\ audits[2].action = "Search"
    /\ audits[1].user_id # audits[2].user_id

\* C3: the repository operation runs only after a successful audit write, it
\* runs exactly once, and its result, Ok or Err, is what the caller gets; the
\* only failure the service adds is the audit failure.
AuditThenRepositoryOnce ==
    [][ pret'.op # "none" =>
          IF pret'.audit = "Ok"
          THEN /\ repoCalls' = repoCalls + 1
               /\ Len(audits') = Len(audits) + 1
               /\ pret'.repo # None
               /\ pret'.err = pret'.repo[1].err
               /\ pret'.val = pret'.repo[1].val
          ELSE /\ repoCalls' = repoCalls
               /\ pret'.repo = None
               /\ pret'.err = "Audit" ]_vars

\* C3 witness: an audited update whose repository error reaches the caller.
RepositoryErrorPassedOn ==
    /\ pret.op = "update"
    /\ pret.audit = "Ok"
    /\ pret.err = "StoreBackendFailure"
    /\ pret.repo = Some(Err("StoreBackendFailure"))

\* C4: after PermissionService.delete(p) returned Ok, p is in the permission
\* set of no role.
DeletedPermissionDetached ==
    (pret.op = "delete" /\ pret.err = "Ok") =>
        \A r \in RoleIds : audits[Len(audits)].resource_id \notin RolePermissions(r)

\* C4 witness: a delete returned Ok and left a role, which referenced the
\* permission, with an emptied permission list.
DeleteDetachedSeen ==
    /\ pret.op = "delete"
    /\ pret.err = "Ok"
    /\ \E r \in RoleIds : roles[r].permissions = Some(<<>>)

\* C5: with the calls executing one at a time from an empty store, no two
\* stored users share a username and no two share an email.
UniqueNaturalKeys ==
    \A i, j \in DOMAIN users :
        i # j => /\ users[i].username # users[j].username
                 /\ users[i].email # users[j].email

\* C5 witness: two users are stored, after an update that asked for the
\* username of the other one and was refused.
TwoUsersRenameRefused ==
    /\ Cardinality(DOMAIN users) = 2
    /\ ret.op = "update"
    /\ ret.err = "UsernameAlreadyTaken"
    /\ ret.arg.id \in DOMAIN users

\* C6: a create that passed both pre-checks inserts its document whatever the
\* store holds by then, also a user with the same username or email: the
\* store enforces no uniqueness but that of _id.
RaceInsertUnguarded ==
    [][ \A p \in Procs :
          (/\ pc[p] = "checkedEmail"
           /\ pc'[p] # "checkedEmail"
           /\ req[p].user.id \notin DOMAIN users) =>
              /\ pc'[p] = "inserted"
              /\ DOMAIN users' = DOMAIN users \cup {req[p].user.id}
              /\ users'[req[p].user.id] = ToDocument(req[p].user) ]_vars

\* C6 witness: both requests passed their pre-checks while the store was
\* empty, both inserted, and two stored users share username and email.
RaceDuplicateStored ==
    /\ \A p \in Procs : pc[p] \in {"inserted", "returned"} /\ req[p].seen = {}
    /\ \A p \in Procs : req[p].err = "Ok"
    /\ Cardinality(DOMAIN users) = 2
    /\ \A i, j \in DOMAIN users :
         users[i].username = users[j].username /\ users[i].email = users[j].email

UsernameHeld(coll, username) == \E i \in DOMAIN coll : coll[i].username = username
EmailHeld(coll, email) == \E i \in DOMAIN coll : coll[i].email = email

\* C7 as stated: a create whose username is that of a stored user fails with
\* UsernameAlreadyTaken, and one whose email is that of a stored user (its
\* username being free) fails with EmailAlreadyTaken, whatever the other
\* fields are; nothing is inserted.
CreateDuplicateAlwaysNamed ==
    [][ ret'.op = "create" =>
          /\ UsernameHeld(users, ret'.arg.username) =>
                (ret'.err = "UsernameAlreadyTaken" /\ users' = users)
          /\ (~UsernameHeld(users, ret'.arg.username) /\ EmailHeld(users, ret'.arg.email)) =>
                (ret'.err = "EmailAlreadyTaken" /\ users' = users) ]_vars

\* C7 amended: when no store call fails, a create whose username is that of a
\* stored user fails with UsernameAlreadyTaken whatever the other fields are;
\* one whose email is that of a stored user fails with EmailAlreadyTaken when
\* its username is non-empty and free, and with EmptyUsername when its
\* username is empty; in all these cases nothing is inserted.
CreateDuplicateRejected ==
    [][ (ret'.op = "create" /\ ret'.fault = 0) =>
          /\ UsernameHeld(users, ret'.arg.username) =>
                (ret'.err = "UsernameAlreadyTaken" /\ users' = users)
          /\ (ret'.arg.username = "" /\ EmailHeld(users, ret'.arg.email)) =>
                (ret'.err = "EmptyUsername" /\ users' = users)
          /\ (/\ ret'.arg.username # ""
              /\ ~UsernameHeld(users, ret'.arg.username)
              /\ EmailHeld(users, ret'.arg.email)) =>
                (ret'.err = "EmailAlreadyTaken" /\ users' = users)
          /\ EmailHeld(users, ret'.arg.email) => users' = users ]_vars

\* C7 witness: a create under a new id and a free username was refused for
\* its email, and an other user holds that email.
CreateRefusedForEmail ==
    /\ ret.op = "create"
    /\ ret.err = "EmailAlreadyTaken"
    /\ ret.arg.id \notin DOMAIN users
    /\ ~UsernameHeld(users, ret.arg.username)
    /\ EmailHeld(users, ret.arg.email)

OtherHoldsUsername(coll, user) ==
    \E i \in DOMAIN coll : i # user.id /\ coll[i].username = user.username
OtherHoldsEmail(coll, user) ==
    \E i \in DOMAIN coll : i # user.id /\ coll[i].email = user.email
KeepsOwnKeys(coll, user) ==
    /\ user.id \in DOMAIN coll
    /\ coll[user.id].username = user.username
    /\ coll[user.id].email = user.email

\* C8 as stated: update fails with UsernameAlreadyTaken exactly when a stored
\* user with a different id holds the requested username, and with
\* EmailAlreadyTaken exactly when (the username being free) one holds the
\* requested email, the store unchanged; an update keeping its own username
\* and email succeeds.
UpdateDuplicateExactly ==
    [][ ret'.op = "update" =>
          /\ (ret'.err = "UsernameAlreadyTaken") <=> OtherHoldsUsername(users, ret'.arg)
          /\ (ret'.err = "EmailAlreadyTaken") <=>
                (~OtherHoldsUsername(users, ret'.arg) /\ OtherHoldsEmail(users, ret'.arg))
          /\ ret'.err \in {"UsernameAlreadyTaken", "EmailAlreadyTaken"} => users' = users
          /\ KeepsOwnKeys(users, ret'.arg) => ret'.err = "Ok" ]_vars

\* C8 amended: when no store call fails, update fails with
\* UsernameAlreadyTaken exactly when a stored user with a different id holds
\* the requested username, and with EmailAlreadyTaken exactly when the
\* requested username is non-empty and held by no other user and a stored user
\* with a different id holds the requested email; the store is unchanged in
\* both cases; an update keeping its own username and email succeeds.
UpdateDuplicateRejected ==
    [][ (ret'.op = "update" /\ ret'.fault = 0) =>
          /\ (ret'.err = "UsernameAlreadyTaken") <=> OtherHoldsUsername(users, ret'.arg)
          /\ (ret'.err = "EmailAlreadyTaken") <=>
                (/\ ret'.arg.username # ""
                 /\ ~OtherHoldsUsername(users, ret'.arg)
                 /\ OtherHoldsEmail(users, ret'.arg))
          /\ ret'.err \in {"UsernameAlreadyTaken", "EmailAlreadyTaken"} => users' = users
          /\ KeepsOwnKeys(users, ret'.arg) => ret'.err = "Ok" ]_vars

\* C8 witness: with two users stored, an update that kept its own username
\* and email succeeded.
UpdateKeptOwnKeys ==
    /\ Cardinality(DOMAIN users) = 2
    /\ ret.op = "update"
    /\ ret.err = "Ok"
    /\ ret.val[1].username = ret.arg.username
    /\ ret.val[1].email = ret.arg.email
    /\ ret.val[1].first_name # ret.arg.first_name

\* C9 as stated: an update whose id matches no stored user, and whose username
\* and email are held by nobody, fails with UserNotFound and leaves the store
\* unchanged.
UpdateUnknownIdNotFound ==
    [][ (/\ ret'.op = "update"
         /\ ret'.arg.id \notin DOMAIN users
         /\ ~UsernameHeld(users, ret'.arg.username)
         /\ ~EmailHeld(users, ret'.arg.email)) =>
            (ret'.err = "UserNotFound" /\ users' = users) ]_vars

\* C9 amended: when no store call fails, an update whose id matches no stored
\* user, and whose username and email are non-empty and held by nobody, fails
\* with UserNotFound, and with EmptyUsername / EmptyEmail when its username /
\* email is empty; an update whose id matches no stored user never creates a
\* record: the store is unchanged.
UpdateNeverUpserts ==
    [][ (ret'.op = "update" /\ ret'.fault = 0 /\ ret'.arg.id \notin DOMAIN users) =>
          /\ users' = users
          /\ ret'.arg.username = "" => ret'.err = "EmptyUsername"
          /\ (/\ ret'.arg.username # ""
              /\ ~UsernameHeld(users, ret'.arg.username)
              /\ ret'.arg.email = "") => ret'.err = "EmptyEmail"
          /\ (/\ ret'.arg.username # ""
              /\ ret'.arg.email # ""
              /\ ~UsernameHeld(users, ret'.arg.username)
              /\ ~EmailHeld(users, ret'.arg.email)) => ret'.err = "UserNotFound" ]_vars

\* C9 witness: an update under an id that is not stored answered UserNotFound
\* while an other user is stored.
UpdateUnknownIdSeen ==
    /\ ret.op = "update"
    /\ ret.err = "UserNotFound"
    /\ ret.arg.id \notin DOMAIN users
    /\ DOMAIN users # {}

\* C10: every successful update sets the stored user's updatedAt (the field
\* creation writes) to the time of the update, and leaves createdAt as it was.
UpdateAdvancesUpdatedAt ==
    [][ (ret'.op = "update" /\ ret'.err = "Ok") =>
          /\ users'[ret'.arg.id].updatedAt = now'
          /\ users'[ret'.arg.id].createdAt = users[ret'.arg.id].createdAt ]_vars

\* C11: update never changes a stored user's id, createdAt or password hash,
\* and touches no user but the one whose id it is given: no document is added
\* or removed, the other documents are left as they were, and of the one
\* document only username, email, firstName, lastName, roles, enabled and the
\* update timestamp may differ.
UpdateFrame ==
    [][ ret'.op = "update" =>
          /\ DOMAIN users' = DOMAIN users
          /\ \A i \in DOMAIN users :
               /\ i # ret'.arg.id => users'[i] = users[i]
               /\ users'[i].id = users[i].id
               /\ users'[i].createdAt = users[i].createdAt
               /\ users'[i].password = users[i].password
               /\ users'[i] = [users[i] EXCEPT
                     !.username = users'[i].username, !.email = users'[i].email,
                     !.firstName = users'[i].firstName, !.lastName = users'[i].lastName,
                     !.roles = users'[i].roles, !.enabled = users'[i].enabled,
                     !.updated_at = users'[i].updated_at] ]_vars

\* C11 witness: with two users stored, an update that carried an other
\* password and an other creation time succeeded: the names changed, the
\* stored password and createdAt are the ones of the creation.
UpdateFrameSeen ==
    /\ Cardinality(DOMAIN users) = 2
    /\ ret.op = "update"
    /\ ret.err = "Ok"
    /\ users[ret.arg.id].firstName = ret.arg.first_name
    /\ users[ret.arg.id].firstName # ret.val[1].first_name
    /\ users[ret.arg.id].password # ret.arg.password
    /\ users[ret.arg.id].createdAt # ret.arg.created_at

EmptyError(op) ==
    CASE op \in {"find_by_id", "delete"} -> "EmptyId"
      [] op = "find_by_username" -> "EmptyUsername"
      [] op = "find_by_email" -> "EmptyEmail"

\* C13 as stated: find_by_id, find_by_username, find_by_email and delete
\* called with an empty argument fail with EmptyId / EmptyUsername /
\* EmptyEmail / EmptyId without issuing any store call; when no store call
\* fails, a create with an empty username or an empty email fails with
\* EmptyUsername or EmptyEmail and inserts nothing.
EmptyInputAlwaysValidation ==
    [][ /\ (/\ ret'.op \in {"find_by_id", "find_by_username", "find_by_email", "delete"}
            /\ ret'.arg = "") =>
              (ret'.err = EmptyError(ret'.op) /\ users' = users)
        /\ (/\ ret'.op = "create"
            /\ ret'.fault = 0
            /\ (ret'.arg.username = "" \/ ret'.arg.email = "")) =>
              (ret'.err \in {"EmptyUsername", "EmptyEmail"} /\ users' = users) ]_vars

\* C13 amended: the four lookups called with an empty argument fail with
\* their validation error whether or not the store answers (a store call, had
\* one been issued, would have failed under fault 1), and leave the store as
\* it was; a create with an empty username fails with EmptyUsername, again
\* whether or not the store answers; when no store call fails, a create with
\* an empty email and a non-empty username fails with EmptyEmail if no stored
\* user holds the username and with UsernameAlreadyTaken if one does; a
\* create with an empty username or email inserts nothing.
EmptyInputRejected ==
    [][ /\ (/\ ret'.op \in {"find_by_id", "find_by_username", "find_by_email", "delete"}
            /\ ret'.arg = "") =>
              (ret'.err = EmptyError(ret'.op) /\ users' = users)
        /\ (ret'.op = "create" /\ ret'.arg.username = "") =>
              (ret'.err = "EmptyUsername" /\ users' = users)
        /\ (/\ ret'.op = "create"
            /\ ret'.fault = 0
            /\ ret'.arg.username # ""
            /\ ret'.arg.email = "") =>
              /\ ret'.err = (IF UsernameHeld(users, ret'.arg.username)
                             THEN "UsernameAlreadyTaken" ELSE "EmptyEmail")
              /\ users' = users
        /\ (ret'.op = "create" /\ (ret'.arg.username = "" \/ ret'.arg.email = "")) =>
              users' = users ]_vars

\* C13 witness: a create with an empty email under a new id was answered
\* UsernameAlreadyTaken, its username being held by a stored user, and the
\* store holds that one user only.
EmptyEmailTakenUsernameSeen ==
    /\ ret.op = "create"
    /\ ret.fault = 0
    /\ ret.arg.email = ""
    /\ ret.err = "UsernameAlreadyTaken"
    /\ UsernameHeld(users, ret.arg.username)
    /\ DOMAIN users = UserIds \ {ret.arg.id}

\* C14: whenever a store call made by a UserRepository operation fails, the
\* read of the result cursor of find_all included, the operation returns
\* MongoDbError and never a success value: an operation one of whose store
\* calls is to fail returns MongoDbError, or the error that made it return
\* before that call.
StoreFailurePropagated ==
    [][ (ret'.op # "none" /\ ret'.fault # 0) =>
          /\ ret'.err # "Ok"
          /\ ret'.err \in {"MongoDbError", "EmptyId", "EmptyUsername", "EmptyEmail",
                           "UsernameAlreadyTaken", "EmailAlreadyTaken"} ]_vars

\* The stored users a login request names.
Named(coll, request) == {i \in DOMAIN coll : coll[i].username = request.username}

\* The generic denial of login: 400 with an empty body, and no token.
Denied(r) == r.status = 400 /\ r.body = None /\ r.tokens = {}

\* C15: a login with non-empty username and password is answered the one
\* response, 400 with an empty body, in each denial case: the username is
\* that of no stored user or the lookup failed; the user is enabled and the
\* password is wrong; the user is disabled, the password right or wrong.
LoginDenialUniform ==
    [][ (/\ resp'.op = "login"
         /\ resp'.request.username # ""
         /\ resp'.request.password # "") =>
          /\ resp'.fault = "lookup" => Denied(resp')
          /\ Named(users, resp'.request) = {} => Denied(resp')
          /\ (/\ resp'.fault = "none"
              /\ \E i \in Named(users, resp'.request) :
                   \/ ~users[i].enabled
                   \/ users[i].password # HashPassword(resp'.request.password)) =>
                Denied(resp') ]_vars

\* C15 witness: a login under the username and the password of a stored user
\* that is disabled was denied, and the other stored user is enabled.
LoginDisabledDeniedSeen ==
    /\ resp.op = "login"
    /\ Denied(resp)
    /\ \E i \in Named(users, resp.request) :
         /\ ~users[i].enabled
         /\ users[i].password = HashPassword(resp.request.password)
    /\ \E j \in DOMAIN users : users[j].enabled

\* C16: login issues a token only when a stored user has the given username,
\* the hash of the supplied password equals that user's stored password hash
\* and the user is enabled; the token is the body of a 200 response and its
\* subject is that user's email.
LoginTokenOnlyForCredentials ==
    [][ (resp'.op = "login" /\ (resp'.status = 200 \/ resp'.tokens # {})) =>
          \E i \in Named(users, resp'.request) :
              /\ users[i].password = HashPassword(resp'.request.password)
              /\ users[i].enabled
              /\ resp'.status = 200
              /\ resp'.tokens = {JwtToken(users[i].email, TRUE, FALSE)}
              /\ resp'.body = Some(LoginResponse(JwtToken(users[i].email, TRUE, FALSE)))
              /\ issued' = issued \cup resp'.tokens ]_vars

\* C16 witness: with two users stored, one of them disabled, a login was
\* answered 200 with a token whose subject is the email of the user named.
LoginTokenSeen ==
    /\ resp.op = "login"
    /\ resp.status = 200
    /\ Cardinality(DOMAIN users) = 2
    /\ \E i \in Named(users, resp.request) :
         /\ resp.tokens = {JwtToken(users[i].email, TRUE, FALSE)}
         /\ \E j \in DOMAIN users : j # i /\ ~users[j].enabled

\* The stored users the subject of a verified bearer token resolves to.
Resolved(coll, header) ==
    IF /\ header # None
       /\ header[1].scheme = "Bearer"
       /\ VerifyJwtToken(header[1].token).err = "Ok"
    THEN {i \in DOMAIN coll : coll[i].email = header[1].token.sub}
    ELSE {}

\* C17: the current-user request is answered 403 with an empty body whenever
\* the Authorization header is missing or no bearer token, the token fails
\* verification, its subject resolves to no user, the lookup fails, or the
\* subject resolves to a user that is not enabled; it is answered 200 only
\* for a verified token whose subject resolves to an enabled user.
CurrentDeniesUnlessEnabled ==
    [][ resp'.op = "current" =>
          /\ (\/ Resolved(users, resp'.request) = {}
              \/ resp'.fault = "lookup"
              \/ \E i \in Resolved(users, resp'.request) : ~users[i].enabled) =>
                (resp'.status = 403 /\ resp'.body = None)
          /\ resp'.status = 200 =>
                \E i \in Resolved(users, resp'.request) : users[i].enabled ]_vars

\* C18: register answers 400 when the username, the password or the email is
\* empty, and 400 when the username or the email is that of a stored user;
\* it answers 500 only for an internal failure (of the salt, the hash, the
\* store or the role lookup).
RegisterStatusByCause ==
    [][ resp'.op = "register" =>
          /\ "" \in {resp'.request.username, resp'.request.password, resp'.request.email} =>
                resp'.status = 400
          /\ (/\ "" \notin {resp'.request.username, resp'.request.password,
                            resp'.request.email}
              /\ resp'.fault = "none"
              /\ \/ UsernameHeld(users, resp'.request.username)
                 \/ EmailHeld(users, resp'.request.email)) =>
                resp'.status = 400
          /\ resp'.status = 500 => resp'.fault # "none" ]_vars

\* The response is 200 and its body is the DTO of the user.
AnswersUser(r, user) ==
    /\ r.status = 200
    /\ r.body # None
    /\ r.body[1].id = user.id
    /\ r.body[1].username = user.username
    /\ r.body[1].email = user.email

\* C19: the round trip.  Once register succeeded for (u, e, pw), a login with
\* (u, pw) is answered 200 with a token, and a current-user request with that
\* token is answered 200 with the data of the user registered.  As long as a
\* stored user is enabled and has the password, a login with its username and
\* that password is answered 200 with a token of its email; a current-user
\* request with an issued, unexpired token whose subject is the email of an
\* enabled stored user is answered 200 with the data of that user; one with a
\* token that fails verification is answered 403.  (No call fails.)
RegisterLoginCurrent ==
    [][ /\ (resp'.op = "register" /\ resp'.status = 200) =>
              \A lo \in LoginOutcomes(users', [username |-> resp'.request.username,
                                               password |-> resp'.request.password], "none") :
                  /\ lo.status = 200
                  /\ lo.tokens = {JwtToken(resp'.request.email, TRUE, FALSE)}
                  /\ \A tk \in lo.tokens :
                       \A co \in CurrentOutcomes(users', roles', permissions',
                                                 Bearer(tk), "none") :
                           /\ AnswersUser(co, ret'.val[1])
                           /\ ret'.val[1].username = resp'.request.username
                           /\ ret'.val[1].email = resp'.request.email
        /\ (resp'.op = "login" /\ resp'.fault = "none" /\ resp'.request.password # "") =>
              \A i \in Named(users, resp'.request) :
                  (users[i].enabled /\ users[i].password = HashPassword(resp'.request.password))
                     => /\ resp'.status = 200
                        /\ resp'.tokens = {JwtToken(users[i].email, TRUE, FALSE)}
        /\ (resp'.op = "current" /\ resp'.fault = "none") =>
              \A i \in Resolved(users, resp'.request) :
                  users[i].enabled => AnswersUser(resp', FromDocument(users[i]))
        /\ (/\ resp'.op = "current"
            /\ resp'.request # None
            /\ resp'.request[1].scheme = "Bearer"
            /\ VerifyJwtToken(resp'.request[1].token).err # "Ok") =>
              (resp'.status = 403 /\ resp'.body = None) ]_vars

\* C19 witness: a current-user request with an issued token was answered 200
\* with the data of a stored user that is enabled and as registered (never
\* updated), the token's subject being its email.
RoundTripSeen ==
    /\ resp.op = "current"
    /\ resp.status = 200
    /\ resp.request[1].token \in issued
    /\ \E i \in DOMAIN users :
         /\ users[i].updated_at = None
         /\ users[i].enabled
         /\ users[i].email = resp.request[1].token.sub
         /\ AnswersUser(resp, FromDocument(users[i]))

\* C20: registration never authenticates the caller.  A register request
\* hands out no token, and when it succeeds its 200 response has an empty
\* body; a token is handed out by a successful login only; and a
\* current-user request is answered 200 only for a token a login handed out.
RegisterNeverAuthenticates ==
    [][ /\ resp'.op = "register" =>
              /\ resp'.tokens = {}
              /\ issued' = issued
              /\ resp'.status = 200 => resp'.body = None
        /\ issued' # issued => (resp'.op = "login" /\ resp'.status = 200)
        /\ (resp'.op = "current" /\ resp'.status = 200) =>
              (resp'.request # None /\ resp'.request[1].token \in issued) ]_vars

\* C20 witness: a registration succeeded with an empty body, the user is
\* stored, and no token has been handed out.
RegisteredNotAuthenticated ==
    /\ resp.op = "register"
    /\ resp.status = 200
    /\ resp.body = None
    /\ UsernameHeld(users, resp.request.username)
    /\ issued = {}

\* The roles named DEFAULT.
DefaultRoles(rls) == {r \in DOMAIN rls : rls[r].name = "DEFAULT"}

\* C21: the user a register request persists has as roles exactly the
\* resolved default role: the one id of the role named DEFAULT when that role
\* exists, and no roles when it does not; in that case the registration still
\* proceeds (a complete request with a free username and email is answered
\* 200 when no call fails); the roles the request names are never stored.
RegisterStoresDefaultRole ==
    [][ resp'.op = "register" =>
          /\ \A i \in DOMAIN users' \ DOMAIN users :
               /\ DefaultRoles(roles) = {} => users'[i].roles = None
               /\ \A r \in DefaultRoles(roles) : users'[i].roles = Some(<<roles[r].id>>)
          /\ (/\ resp'.fault = "none"
              /\ "" \notin {resp'.request.username, resp'.request.password,
                            resp'.request.email}
              /\ ~UsernameHeld(users, resp'.request.username)
              /\ ~EmailHeld(users, resp'.request.email)) =>
                /\ resp'.status = 200
                /\ DOMAIN users' # DOMAIN users ]_vars

\* C21 witness: a registration that named the role r2 succeeded while no role
\* is named DEFAULT, and the user it stored has no roles.
RegisteredWithoutDefaultRole ==
    /\ resp.op = "register"
    /\ resp.status = 200
    /\ resp.request.roles = Some(<<"r2">>)
    /\ DefaultRoles(roles) = {}
    /\ \E i \in DOMAIN users :
         users[i].username = resp.request.username /\ users[i].roles = None

\* The ids a list names; a missing list names none.
Listed(l) == IF l = None THEN {} ELSE {l[1][k] : k \in DOMAIN l[1]}

\* The stored roles the assembled user names, and the stored permissions a
\* stored role names.
FoundRoles == Listed(assembled.user[1].roles) \cap DOMAIN roles
ResolvedPermissions(r) == Listed(roles[r].permissions) \cap DOMAIN permissions

\* The role lookup was made and failed.
RoleLookupFailed == assembled.user[1].roles # None /\ assembled.fault = "role"

\* The role lookup did not fail, and a permission lookup was made and failed.
PermissionLookupFailed ==
    /\ ~RoleLookupFailed
    /\ \E r \in FoundRoles :
         roles[r].permissions # None /\ assembled.fault \in {"permission", r}

AssemblyAbortsOnFailure ==
    assembled.user # None =>
      /\ RoleLookupFailed => (assembled.err = "RoleError" /\ assembled.val = None)
      /\ PermissionLookupFailed =>
           (assembled.err = "PermissionError" /\ assembled.val = None)
      /\ assembled.err # "Ok" =>
           (assembled.val = None /\ (RoleLookupFailed \/ PermissionLookupFailed))

\* C23 witness: a user naming two stored roles was assembled; the permission
\* lookup of the first succeeded, that of the second failed, and the assembly
\* ended with PermissionError and no DTO.
AssemblyAbortedAtSecondRole ==
    /\ assembled.user # None
    /\ assembled.user[1].roles = Some(<<"r1", "r2">>)
    /\ assembled.fault = "r2"
    /\ roles["r1"].permissions = Some(<<"p1">>)
    /\ "p1" \in DOMAIN permissions
    /\ roles["r2"].permissions # None
    /\ assembled.err = "PermissionError"
    /\ assembled.val = None

\* C24: the user a creation request was converted into has a generated id
\* that is not empty, the same creation and update time, is enabled, and has
\* the username, email, first name, last name, password and roles of the
\* request.
ConversionCopiesRequest ==
    converted.value # None =>
      LET value == converted.value[1]
          user == converted.user[1]
      IN  /\ user.id # ""
          /\ user.id \in UserIds
          /\ user.created_at = user.updated_at
          /\ user.enabled = TRUE
          /\ <<user.username, user.email, user.first_name, user.last_name,
               user.password, user.roles>>
               = <<value.username, value.email, value.first_name, value.last_name,
                   value.password, value.roles>>

\* C24 witness: a request that names a role was converted after the clock had
\* moved, and the user carries that role and is stored.
ConvertedWithRolesSeen ==
    /\ converted.value # None
    /\ converted.value[1].roles = Some(<<"r1">>)
    /\ converted.user[1].roles = Some(<<"r1">>)
    /\ converted.user[1].created_at = MaxTime
    /\ converted.user[1].id \in DOMAIN users

\* C25 (as claimed): whenever the current-user handler accepts a token, the
\* user it answers with is a user that token was issued to.
TokenBoundToUser ==
    (resp.op = "current" /\ resp.status = 200) =>
      <<resp.request[1].token, resp.body[1].id>> \in bound

\* C26 (as claimed): when the extractor is handed a valid token that login
\* issued to a stored, enabled user whose email is still the token's subject,
\* and neither the audit write nor the lookup fails, it returns the id of that
\* user.
ExtractorResolvesHolder ==
    (resp.op = "user_id" /\ resp.fault = "none") =>
      \A i \in DOMAIN users :
        (/\ users[i].enabled
         /\ users[i].email = resp.request[1].token.sub
         /\ resp.request[1].token \in issued
         /\ <<resp.request[1].token, i>> \in bound) =>
           resp.body = Some(i)

\* C27: the audit record of a PermissionService operation is written before
\* the repository operation and is never taken back: when the audit write
\* succeeds and the repository operation fails, the record of the operation is
\* the last of the ledger, the records before it are kept, and the permission
\* and role stores are as they were; at every moment the ledger holds as many
\* records as there were service calls whose audit write succeeded (each of
\* which invoked the repository once), whatever number of them took effect.
AuditKeptOnRepositoryFailure ==
    [][ /\ (pret'.op # "none" /\ pret'.audit = "Ok" /\ pret'.err # "Ok") =>
             /\ Len(audits') = Len(audits) + 1
             /\ \A k \in {Len(audits')} \cap DOMAIN audits' :
                  /\ audits'[k].user_id = pret'.user_id
                  /\ audits'[k].action = ActionOf(pret'.op)
                  /\ audits'[k].resource_type = "Permission"
             /\ permissions' = permissions
             /\ roles' = roles
        /\ Len(audits') >= Len(audits)
        /\ SubSeq(audits', 1, Len(audits)) = audits
        /\ Len(audits') = repoCalls' ]_vars

\* C27 witness: two audited calls, a create and an update, were both refused
\* by the repository; the ledger holds their two records and the permission
\* store holds nothing.
AuditsOutnumberEffects ==
    /\ pret.op = "update"
    /\ pret.audit = "Ok"
    /\ pret.err # "Ok"
    /\ Len(audits) = 2
    /\ audits[1].action = "Create"
    /\ audits[2].action = "Update"
    /\ permissions = <<>>

\* C28 (as claimed): the user a successful update returns has the username,
\* email, first name, last name, roles and enabled flag of the update
\* request.
UpdateReturnsUpdated ==
    [][ (ret'.op = "update" /\ ret'.err = "Ok") =>
          <<ret'.val[1].username, ret'.val[1].email, ret'.val[1].first_name,
            ret'.val[1].last_name, ret'.val[1].roles, ret'.val[1].enabled>>
            = <<ret'.arg.username, ret'.arg.email, ret'.arg.first_name,
                ret'.arg.last_name, ret'.arg.roles, ret'.arg.enabled>> ]_vars

====
